---- MODULE Spec2Model ----
(***************************************************************************)
(* Model of Deksel/ledstrip/ledstrip.ino: a serial command line selects    *)
(* one of three waste categories and four NeoPixel strips show the choice. *)
(* One step of the model is one statement group of the sketch: a call of   *)
(* handleSerial up to its last statement, one strip written and flushed by *)
(* clearAll or by showChoice, the delay at the end of loop().              *)
(***************************************************************************)
EXTENDS Integers, Sequences, FiniteSets, TLC

VARIABLES
    pc,             \* the statement the sketch executes next
    idx,            \* the strip clearAll / showChoice writes next (0: none)
    ret,            \* where clearAll returns to: "banner" or "offAck"
    currentChoice,  \* the global Choice currentChoice
    strips,         \* strips[k]: the colour strip k shows since its last show()
    rx,             \* the bytes received on Serial and not read yet
    out,            \* the lines printed on Serial since loop() was last called
    raw,            \* the String handleSerial read in this pass, or NoCmd
    cmd,            \* that String trimmed and lower-cased, or NoCmd
    lastCat,        \* the last String read, if a category word, else <<>>
    repeated,       \* cmd is a category word and equals the String read before
    lastSel,        \* the last command that set currentChoice: "select", "off"
    everSelected,   \* a category command has been handled since power-on
    prev            \* currentChoice and strips when the previous pass ended

vars == <<pc, idx, ret, currentChoice, strips, rx, out, raw, cmd, lastCat,
          repeated, lastSel, everSelected, prev>>

-----------------------------------------------------------------------------
(* Bounds of the model.                                                    *)

\* The most lines, and the most bytes, the host leaves unread in the receive
\* buffer.
MaxPending == 2
MaxRx == 12

-----------------------------------------------------------------------------
(* Constants of the sketch.                                                *)

PIN1 == 7
PIN2 == 4
PIN3 == 5
PIN4 == 6

\* enum Choice { NONE, PMD, REST, KARTON }
NONE == 0
PMD == 1
REST == 2
KARTON == 3
Choice == {NONE, PMD, REST, KARTON}

Strips == 1..4

\* Strip objects with strip2 constructed on PIN3 and strip3 on PIN2.
PinOfSwapped(k) ==
    CASE k = 1 -> PIN1 [] k = 2 -> PIN3 [] k = 3 -> PIN2 [] OTHER -> PIN4

\* The pin each strip object is constructed on.
PinOf(k) == CASE k = 1 -> PIN1 [] k = 2 -> PIN2 [] k = 3 -> PIN3 [] OTHER -> PIN4

\* Adafruit_NeoPixel::Color(r, g, b): the packed 24-bit value.
Color(r, g, b) == r * 65536 + g * 256 + b

RED == Color(255, 0, 0)
GREEN == Color(0, 255, 0)
OFF == Color(0, 0, 0)
Colours == {OFF, RED, GREEN}

-----------------------------------------------------------------------------
(* Serial text.  A String is a sequence of one-character strings.          *)

NL == "\n"

\* isspace() of the C library, which String::trim uses.
IsSpace(ch) == ch \in {" ", "\t", "\n", "\r", "\f"}

Upper == <<"A","B","C","D","E","F","G","H","I","J","K","L","M",
           "N","O","P","Q","R","S","T","U","V","W","X","Y","Z">>
Lower == <<"a","b","c","d","e","f","g","h","i","j","k","l","m",
           "n","o","p","q","r","s","t","u","v","w","x","y","z">>

\* tolower() of the C library.
ToLowerChar(ch) ==
    IF \E i \in 1..Len(Upper) : Upper[i] = ch
    THEN Lower[CHOOSE i \in 1..Len(Upper) : Upper[i] = ch]
    ELSE ch

\* String::toLowerCase(): every character through tolower().
ToLowerCase(s) == [i \in 1..Len(s) |-> ToLowerChar(s[i])]

RECURSIVE TrimLeft(_)
TrimLeft(s) ==
    IF s # <<>> /\ IsSpace(Head(s)) THEN TrimLeft(Tail(s)) ELSE s

RECURSIVE TrimRight(_)
TrimRight(s) ==
    IF s # <<>> /\ IsSpace(s[Len(s)])
    THEN TrimRight(SubSeq(s, 1, Len(s) - 1))
    ELSE s

\* A trim that forgets the end of the String.
TrimLeadingOnly(s) == TrimLeft(s)

\* String::trim(): leading and trailing whitespace removed.
Trim(s) == TrimRight(TrimLeft(s))

\* The place of the first '\n' in buf, 0 when it holds none.
FirstNL(buf) ==
    IF \E i \in 1..Len(buf) : buf[i] = NL
    THEN CHOOSE i \in 1..Len(buf) :
            buf[i] = NL /\ \A j \in 1..(i - 1) : buf[j] # NL
    ELSE 0

\* Serial.readStringUntil('\n'): the bytes before the first '\n', which is
\* read and dropped; with no '\n' in the buffer the read ends by its timeout
\* and returns every byte received.
ReadStringUntil(buf) ==
    IF FirstNL(buf) = 0 THEN buf ELSE SubSeq(buf, 1, FirstNL(buf) - 1)

\* A read that also empties the receive buffer.
AfterReadFlushes(buf) == <<>>

\* The bytes left in the buffer after that read.
AfterRead(buf) ==
    IF FirstNL(buf) = 0 THEN <<>> ELSE SubSeq(buf, FirstNL(buf) + 1, Len(buf))

\* cmd after lines 47-49: read, trimmed, lower-cased, each statement working
\* on the value the one before it left.
ParseCmd(buf) ==
    CHOOSE w \in { ToLowerCase(t) :
                      t \in { Trim(r) : r \in {ReadStringUntil(buf)} } } : TRUE

\* The words handleSerial compares cmd with.
W_pmd == <<"p","m","d">>
W_restafval == <<"r","e","s","t","a","f","v","a","l">>
W_rest == <<"r","e","s","t">>
W_karton == <<"k","a","r","t","o","n">>
W_off == <<"o","f","f">>
W_status == <<"s","t","a","t","u","s">>

CategoryWords == {W_pmd, W_restafval, W_rest, W_karton}
Vocabulary == CategoryWords \cup {W_off, W_status}

\* The lines handleSerial and setup print.
BannerLines == <<"Typ: pmd | restafval | karton", "Extra: status | off">>
AckPmd == "OK: PMD geselecteerd (strip op pin 7 wordt GROEN)."
AckRest == "OK: RESTAFVAL geselecteerd (strip op pin 4 wordt GROEN)."
AckKarton == "OK: KARTON geselecteerd (strip op pin 5 wordt GROEN)."
AckOff == "OK: alles uit."
StatusPrefix == "Huidige keuze: "
Unknown == "Onbekend commando. Gebruik: pmd | restafval | karton | status | off"

\* A status branch whose REST and KARTON tests are exchanged.
StatusNameSwapped(c) ==
    IF c = PMD THEN "PMD"
    ELSE IF c = KARTON THEN "RESTAFVAL"
    ELSE IF c = REST THEN "KARTON"
    ELSE "NONE"

\* The name the status branch prints for a choice.
StatusName(c) ==
    IF c = PMD THEN "PMD"
    ELSE IF c = REST THEN "RESTAFVAL"
    ELSE IF c = KARTON THEN "KARTON"
    ELSE "NONE"

-----------------------------------------------------------------------------
(* Rendering.                                                              *)

\* A showChoice that turns c4, not c3, green for KARTON.
ChoiceColourShifted(c, k) ==
    IF k = 1 /\ c = PMD THEN GREEN
    ELSE IF k = 2 /\ c = REST THEN GREEN
    ELSE IF k = 4 /\ c = KARTON THEN GREEN
    ELSE IF c = NONE THEN OFF ELSE RED

\* A showChoice whose third override tests REST as the second does.
ChoiceColourRestTwice(c, k) ==
    IF k = 1 /\ c = PMD THEN GREEN
    ELSE IF k = 2 /\ c = REST THEN GREEN
    ELSE IF k = 3 /\ c \in {REST, KARTON} THEN GREEN
    ELSE IF c = NONE THEN OFF ELSE RED

\* showChoice: the colour c1..c4 computed for strip k from choice c.
ChoiceColour(c, k) ==
    IF k = 1 /\ c = PMD THEN GREEN
    ELSE IF k = 2 /\ c = REST THEN GREEN
    ELSE IF k = 3 /\ c = KARTON THEN GREEN
    ELSE IF c = NONE THEN OFF ELSE RED

\* fillStrip(strip k, color): every pixel set, then show().
FillStrip(s, k, color) == [s EXCEPT ![k] = color]

\* A clearAll line without its show(): the strip keeps what it shows.
ClearStripNoShow(s, k) == s

\* One line of clearAll: strip k cleared, then show().
ClearStrip(s, k) == [s EXCEPT ![k] = OFF]

-----------------------------------------------------------------------------
(* The host.                                                               *)

\* The lines the host sends, each followed by '\n': the six words, the empty
\* line, a word that is none of them, and a word in upper case with
\* whitespace around it.
HostLines == {
    W_pmd, W_rest, W_restafval, W_karton, W_off, W_status,
    <<>>,
    <<"p","m","d","d">>,
    <<" ","P","M","D"," ">> }

\* Bytes the host sends with no '\n' after them.
HostFragments == { <<"o","f","f">> }

HostChunks == { Append(l, NL) : l \in HostLines } \cup HostFragments

\* Only handleSerial reads the buffer, once a pass: bytes that arrive anywhere
\* in a pass (or in setup) are bytes that are there at the next poll, so the
\* host is modelled as sending when the sketch is about to poll.
HostTurn == pc = "handleSerial"

\* The lines in the buffer: the ended ones and the one begun.
RECURSIVE Count(_, _)
Count(s, ch) ==
    IF s = <<>> THEN 0
    ELSE (IF Head(s) = ch THEN 1 ELSE 0) + Count(Tail(s), ch)

LineBegun(buf) == buf # <<>> /\ buf[Len(buf)] # NL

Pending(buf) == Count(buf, NL) + (IF LineBegun(buf) THEN 1 ELSE 0)

\* The host sends a line, or ends the line it began with one; it begins a
\* line only when it has begun none.
Arrive(chunk) ==
    /\ HostTurn
    /\ IF chunk \in HostFragments
       THEN ~LineBegun(rx) /\ Pending(rx) < MaxPending
       ELSE Pending(rx) < MaxPending \/ (LineBegun(rx) /\ Pending(rx) = MaxPending)
    /\ Len(rx) + Len(chunk) <= MaxRx
    /\ rx' = rx \o chunk
    /\ UNCHANGED <<pc, idx, ret, currentChoice, strips, out, raw, cmd,
                   lastCat, repeated, lastSel, everSelected, prev>>

-----------------------------------------------------------------------------
(* The sketch.                                                             *)

\* cmd while handleSerial has read nothing in this pass; no read returns it.
NoCmd == <<NL>>

\* What the sketch's state amounts to at the end of a pass.
Shown == [choice |-> currentChoice, strips |-> strips]

AllOff == [k \in Strips |-> OFF]

Init ==
    /\ pc = "setup"
    /\ idx = 0
    /\ ret = "banner"
    /\ currentChoice = NONE
    /\ strips \in [Strips -> Colours]     \* whatever the LEDs show at power-on
    /\ rx = <<>>
    /\ out = <<>>
    /\ raw = NoCmd
    /\ cmd = NoCmd
    /\ lastCat = <<>>
    /\ repeated = FALSE
    /\ lastSel = "none"
    /\ everSelected = FALSE
    /\ prev = [choice |-> NONE, strips |-> AllOff]

\* A setup without its clearAll call.
SetupNoClear ==
    /\ pc = "setup"
    /\ pc' = "banner"
    /\ UNCHANGED <<idx, ret, currentChoice, strips, rx, out, raw, cmd, lastCat,
                   repeated, lastSel, everSelected, prev>>

\* setup, lines 20-29: the port and the strips are started, clearAll is called.
Setup ==
    /\ pc = "setup"
    /\ pc' = "clearAll"
    /\ idx' = 1
    /\ ret' = "banner"
    /\ UNCHANGED <<currentChoice, strips, rx, out, raw, cmd, lastCat,
                   repeated, lastSel, everSelected, prev>>

\* clearAll, one of lines 108-111; after the fourth it returns.
ClearAll ==
    /\ pc = "clearAll"
    /\ strips' = ClearStrip(strips, idx)
    /\ IF idx < 4
       THEN pc' = pc /\ idx' = idx + 1
       ELSE pc' = ret /\ idx' = 0
    /\ UNCHANGED <<ret, currentChoice, rx, out, raw, cmd, lastCat, repeated,
                   lastSel, everSelected, prev>>

\* setup, lines 31-32: the banner.
Banner ==
    /\ pc = "banner"
    /\ out' = out \o BannerLines
    /\ pc' = "loop"
    /\ UNCHANGED <<idx, ret, currentChoice, strips, rx, raw, cmd, lastCat,
                   repeated, lastSel, everSelected, prev>>

\* setup returns and loop() is called for the first time.
EnterLoop ==
    /\ pc = "loop"
    /\ pc' = "handleSerial"
    /\ out' = <<>>
    /\ prev' = Shown
    /\ UNCHANGED <<idx, ret, currentChoice, strips, rx, raw, cmd, lastCat,
                   repeated, lastSel, everSelected>>

\* A handleSerial without line 45: the read times out with an empty String,
\* which the else branch reports.
HandleNoInputReportsUnknown ==
    /\ pc = "handleSerial"
    /\ rx = <<>>
    /\ out' = Append(out, Unknown)
    /\ pc' = "showChoice"
    /\ idx' = 1
    /\ UNCHANGED <<ret, currentChoice, strips, rx, raw, cmd, lastCat, repeated,
                   lastSel, everSelected, prev>>

\* A handleSerial that drops the choice when nothing was received.
HandleNoInputResets ==
    /\ pc = "handleSerial"
    /\ rx = <<>>
    /\ currentChoice' = NONE
    /\ pc' = "showChoice"
    /\ idx' = 1
    /\ UNCHANGED <<ret, strips, rx, out, raw, cmd, lastCat, repeated, lastSel,
                   everSelected, prev>>

\* handleSerial, line 45: nothing received, it returns.
HandleNoInput ==
    /\ pc = "handleSerial"
    /\ rx = <<>>
    /\ pc' = "showChoice"
    /\ idx' = 1
    /\ UNCHANGED <<ret, currentChoice, strips, rx, out, raw, cmd, lastCat,
                   repeated, lastSel, everSelected, prev>>

\* handleSerial, lines 45-49: bytes are available and a String is read.
ReadCmd(w) ==
    /\ pc = "handleSerial"
    /\ rx # <<>>
    /\ w = ParseCmd(rx)
    /\ rx' = AfterRead(rx)
    /\ raw' = ReadStringUntil(rx)
    /\ cmd' = w
    /\ repeated' = (w \in CategoryWords /\ w = lastCat)
    /\ lastCat' = IF w \in CategoryWords THEN w ELSE <<>>

\* loop() goes on to showChoice(currentChoice).
ToShowChoice == pc' = "showChoice" /\ idx' = 1

\* A pmd branch that toggles: pmd while PMD is chosen drops the choice.
HandlePmdToggles ==
    /\ ReadCmd(W_pmd)
    /\ currentChoice' = IF currentChoice = PMD THEN NONE ELSE PMD
    /\ out' = Append(out, AckPmd)
    /\ lastSel' = "select"
    /\ everSelected' = TRUE
    /\ ToShowChoice
    /\ UNCHANGED <<ret, strips, prev>>

\* lines 51-53
HandlePmd ==
    /\ ReadCmd(W_pmd)
    /\ currentChoice' = PMD
    /\ out' = Append(out, AckPmd)
    /\ lastSel' = "select"
    /\ everSelected' = TRUE
    /\ ToShowChoice
    /\ UNCHANGED <<ret, strips, prev>>

\* A branch of its own for rest, copied from karton's with the choice left
\* as it was there.
HandleRestAliasApart ==
    /\ \E w \in {W_restafval, W_rest} : ReadCmd(w)
    /\ currentChoice' = IF cmd' = W_rest THEN KARTON ELSE REST
    /\ out' = Append(out, AckRest)
    /\ lastSel' = "select"
    /\ everSelected' = TRUE
    /\ ToShowChoice
    /\ UNCHANGED <<ret, strips, prev>>

\* lines 55-57
HandleRest ==
    /\ \E w \in {W_restafval, W_rest} : ReadCmd(w)
    /\ currentChoice' = REST
    /\ out' = Append(out, AckRest)
    /\ lastSel' = "select"
    /\ everSelected' = TRUE
    /\ ToShowChoice
    /\ UNCHANGED <<ret, strips, prev>>

\* lines 59-61
HandleKarton ==
    /\ ReadCmd(W_karton)
    /\ currentChoice' = KARTON
    /\ out' = Append(out, AckKarton)
    /\ lastSel' = "select"
    /\ everSelected' = TRUE
    /\ ToShowChoice
    /\ UNCHANGED <<ret, strips, prev>>

\* An off branch that clears the strips and keeps the choice.
HandleOffKeepsChoice ==
    /\ ReadCmd(W_off)
    /\ lastSel' = "off"
    /\ pc' = "clearAll"
    /\ idx' = 1
    /\ ret' = "offAck"
    /\ UNCHANGED <<currentChoice, everSelected, strips, out, prev>>

\* lines 63-65: the choice is dropped and clearAll is called.
HandleOff ==
    /\ ReadCmd(W_off)
    /\ currentChoice' = NONE
    /\ lastSel' = "off"
    /\ UNCHANGED everSelected
    /\ pc' = "clearAll"
    /\ idx' = 1
    /\ ret' = "offAck"
    /\ UNCHANGED <<strips, out, prev>>

\* line 66, after clearAll returned.
OffAck ==
    /\ pc = "offAck"
    /\ out' = Append(out, AckOff)
    /\ ToShowChoice
    /\ UNCHANGED <<ret, currentChoice, strips, rx, raw, cmd, lastCat,
                   repeated, lastSel, everSelected, prev>>

\* A status branch whose line 68 is a println: the report takes two lines.
HandleStatusTwoLines ==
    /\ ReadCmd(W_status)
    /\ out' = out \o <<StatusPrefix, StatusName(currentChoice)>>
    /\ ToShowChoice
    /\ UNCHANGED <<ret, currentChoice, strips, lastSel, everSelected, prev>>

\* lines 68-74
HandleStatus ==
    /\ ReadCmd(W_status)
    /\ out' = Append(out, StatusPrefix \o StatusName(currentChoice))
    /\ ToShowChoice
    /\ UNCHANGED <<ret, currentChoice, strips, lastSel, everSelected, prev>>

\* An else branch that reports and then never returns.
HandleUnknownHalts ==
    /\ \E w \in {ParseCmd(rx)} : w \notin Vocabulary /\ ReadCmd(w)
    /\ out' = Append(out, Unknown)
    /\ pc' = "halt"
    /\ UNCHANGED <<idx, ret, currentChoice, strips, lastSel, everSelected,
                   prev>>

\* An else branch that also drops the choice.
HandleUnknownResets ==
    /\ \E w \in {ParseCmd(rx)} : w \notin Vocabulary /\ ReadCmd(w)
    /\ currentChoice' = NONE
    /\ out' = Append(out, Unknown)
    /\ ToShowChoice
    /\ UNCHANGED <<ret, strips, lastSel, everSelected, prev>>

\* lines 75-77
HandleUnknown ==
    /\ \E w \in {ParseCmd(rx)} : w \notin Vocabulary /\ ReadCmd(w)
    /\ out' = Append(out, Unknown)
    /\ ToShowChoice
    /\ UNCHANGED <<ret, currentChoice, strips, lastSel, everSelected, prev>>

\* A loop() that calls showChoice only in a pass that read a command.
ShowChoiceOnCommand ==
    /\ pc = "showChoice"
    /\ strips' = IF cmd = NoCmd THEN strips
                 ELSE FillStrip(strips, idx, ChoiceColour(currentChoice, idx))
    /\ IF idx < 4
       THEN pc' = pc /\ idx' = idx + 1
       ELSE pc' = "delay" /\ idx' = 0
    /\ UNCHANGED <<ret, currentChoice, rx, out, raw, cmd, lastCat, repeated,
                   lastSel, everSelected, prev>>

\* A showChoice whose last line passes c3, not c4, to strip 4.
ShowChoiceCopiesThird ==
    /\ pc = "showChoice"
    /\ strips' = FillStrip(strips, idx,
                     ChoiceColour(currentChoice, IF idx = 4 THEN 3 ELSE idx))
    /\ IF idx < 4
       THEN pc' = pc /\ idx' = idx + 1
       ELSE pc' = "delay" /\ idx' = 0
    /\ UNCHANGED <<ret, currentChoice, rx, out, raw, cmd, lastCat, repeated,
                   lastSel, everSelected, prev>>

\* showChoice(currentChoice), one of lines 96-99; after the fourth, loop()
\* is at its delay.
ShowChoice ==
    /\ pc = "showChoice"
    /\ strips' = FillStrip(strips, idx, ChoiceColour(currentChoice, idx))
    /\ IF idx < 4
       THEN pc' = pc /\ idx' = idx + 1
       ELSE pc' = "delay" /\ idx' = 0
    /\ UNCHANGED <<ret, currentChoice, rx, out, raw, cmd, lastCat, repeated,
                   lastSel, everSelected, prev>>

\* line 41: the pass ends, loop() is called again.
Delay ==
    /\ pc = "delay"
    /\ pc' = "handleSerial"
    /\ out' = <<>>
    /\ raw' = NoCmd
    /\ cmd' = NoCmd
    /\ repeated' = FALSE
    /\ prev' = Shown
    /\ UNCHANGED <<idx, ret, currentChoice, strips, rx, lastCat, lastSel,
                   everSelected>>

\* The strips that show another colour than showChoice wrote.
Disturbed == {k \in Strips : strips[k] # ChoiceColour(currentChoice, k)}

\* A disturbance on a strip's data line while the sketch sleeps: one strip
\* shows another colour until it is written again.
Glitch ==
    /\ pc = "delay"
    /\ Disturbed = {}
    /\ \E k \in Strips, col \in Colours :
          /\ strips[k] # col
          /\ strips' = [strips EXCEPT ![k] = col]
    /\ UNCHANGED <<pc, idx, ret, currentChoice, rx, out, raw, cmd, lastCat,
                   repeated, lastSel, everSelected, prev>>

Host == \E chunk \in HostChunks : Arrive(chunk)

Next ==
    \/ Setup
    \/ ClearAll
    \/ Banner
    \/ EnterLoop
    \/ HandleNoInput
    \/ HandlePmd
    \/ HandleRest
    \/ HandleKarton
    \/ HandleOff
    \/ OffAck
    \/ HandleStatus
    \/ HandleUnknown
    \/ ShowChoice
    \/ Delay
    \/ Host

Spec == Init /\ [][Next]_vars

NextGlitch == Next \/ Glitch

SpecGlitch == Init /\ [][NextGlitch]_vars

\* The steps of the sketch: every step but the host's.
Sketch ==
    \/ Setup
    \/ ClearAll
    \/ Banner
    \/ EnterLoop
    \/ HandleNoInput
    \/ HandlePmd
    \/ HandleRest
    \/ HandleKarton
    \/ HandleOff
    \/ OffAck
    \/ HandleStatus
    \/ HandleUnknown
    \/ ShowChoice
    \/ Delay

\* The processor runs: setup returns, the core calls loop() again and again,
\* and every statement of the sketch ends (a read by its timeout at the
\* latest, the delay after 50 ms).  The host sends when it likes, or never.
SpecFair == Init /\ [][Next]_vars /\ WF_vars(Sketch)

-----------------------------------------------------------------------------
(* One line, in every spelling.  The sketch is about to poll, with any     *)
(* choice shown, and the buffer holds one line: a word of the vocabulary   *)
(* in some case with whitespace around it, or a line that is no such word. *)

Pads == { <<>>, <<" ">>, <<"\t">>, <<"\r">>, <<" ", " ">> }

ToUpperChar(ch) ==
    IF \E i \in 1..Len(Lower) : Lower[i] = ch
    THEN Upper[CHOOSE i \in 1..Len(Lower) : Lower[i] = ch]
    ELSE ch

Casings(w) ==
    { w,
      [i \in 1..Len(w) |-> ToUpperChar(w[i])],
      [i \in 1..Len(w) |-> IF i = 1 THEN ToUpperChar(w[i]) ELSE w[i]] }

\* The spellings of word w that differ from it in case and in whitespace
\* before and after it only.
Variants(w) == { l \o c \o r : l \in Pads, r \in Pads, c \in Casings(w) }

\* Lines that are no spelling of a word: whitespace inside, a letter short.
NearMisses == { <<"p"," ","m","d">>, <<"o","f">>, <<"r","e","s","t","a">> }

ParseInputs == UNION { Variants(w) : w \in Vocabulary } \cup NearMisses

InitParse ==
    /\ pc = "handleSerial"
    /\ idx = 0
    /\ ret = "banner"
    /\ currentChoice \in Choice
    /\ strips = [k \in Strips |-> ChoiceColour(currentChoice, k)]
    /\ rx \in { Append(l, NL) : l \in ParseInputs }
    /\ out = <<>>
    /\ raw = NoCmd
    /\ cmd = NoCmd
    /\ lastCat = <<>>
    /\ repeated = FALSE
    /\ lastSel = (IF currentChoice = NONE THEN "none" ELSE "select")
    /\ everSelected = (currentChoice # NONE)
    /\ prev = Shown

NextParse ==
    \/ HandleNoInput
    \/ HandlePmd
    \/ HandleRest
    \/ HandleKarton
    \/ HandleOff
    \/ ClearAll
    \/ OffAck
    \/ HandleStatus
    \/ HandleUnknown
    \/ ShowChoice
    \/ Delay

SpecParse == InitParse /\ [][NextParse]_vars

-----------------------------------------------------------------------------
(* The two names of one category.  The sketch is about to poll, with any   *)
(* choice shown, and the buffer holds rest or restafval, in some case, and *)
(* status after it.                                                        *)

AliasLines == Casings(W_rest) \cup Casings(W_restafval)

InitAlias ==
    /\ pc = "handleSerial"
    /\ idx = 0
    /\ ret = "banner"
    /\ currentChoice \in Choice
    /\ strips = [k \in Strips |-> ChoiceColour(currentChoice, k)]
    /\ rx \in { Append(a, NL) \o Append(W_status, NL) : a \in AliasLines }
    /\ out = <<>>
    /\ raw = NoCmd
    /\ cmd = NoCmd
    /\ lastCat = <<>>
    /\ repeated = FALSE
    /\ lastSel = (IF currentChoice = NONE THEN "none" ELSE "select")
    /\ everSelected = (currentChoice # NONE)
    /\ prev = Shown

NextAlias ==
    \/ HandleRest
    \/ HandleStatus
    \/ HandleNoInput
    \/ ShowChoice
    \/ Delay

SpecAlias == InitAlias /\ [][NextAlias]_vars

-----------------------------------------------------------------------------
(* What the design says of the sketch.                                     *)

\* The strip a category word is bound to, and the strip of a choice.
StripOfWord(w) ==
    CASE w = W_pmd -> 1
      [] w \in {W_rest, W_restafval} -> 2
      [] w = W_karton -> 3

StripOfChoice(c) == CASE c = PMD -> 1 [] c = REST -> 2 [] c = KARTON -> 3

\* The colours derived from a choice alone: all Off for None, else green on
\* the bound strip and red on the other three.
Assignment(c) ==
    [k \in Strips |->
        IF c = NONE THEN OFF
        ELSE IF k = StripOfChoice(c) THEN GREEN ELSE RED]

\* The pass has ended: showChoice has returned and the sketch sleeps.
EndOfPass == pc = "delay"

\* setup has returned.
Started ==
    pc \notin {"setup", "banner", "loop"}
    /\ ~(pc = "clearAll" /\ ret = "banner")

\* handleSerial read a line in this pass.
LineRead == cmd # NoCmd

\* C1: at the end of a pass that handled a category command, whatever was
\* chosen and shown before, the strip bound to the category shows green and
\* each of the other three, strip 4 among them, shows red.
C1_OneStripSelected ==
    (EndOfPass /\ cmd \in CategoryWords) =>
        /\ strips[StripOfWord(cmd)] = GREEN
        /\ \A k \in Strips \ {StripOfWord(cmd)} : strips[k] = RED
        /\ Cardinality({k \in Strips : strips[k] = GREEN}) = 1

C1_Witness ==
    /\ EndOfPass
    /\ cmd = W_karton
    /\ prev.choice = PMD
    /\ strips = <<RED, RED, GREEN, RED>>

\* C2: once off has been handled, the choice is None, and at the end of that
\* pass and of every later pass all four strips show Off, until a category
\* command is handled.
C2_OffClearsAll ==
    (lastSel = "off") =>
        /\ currentChoice = NONE
        /\ EndOfPass => \A k \in Strips : strips[k] = OFF

C2_Witness ==
    /\ EndOfPass
    /\ lastSel = "off"
    /\ cmd = W_off
    /\ prev.choice = KARTON
    /\ prev.strips = <<RED, RED, GREEN, RED>>
    /\ strips = <<OFF, OFF, OFF, OFF>>

\* C3: when the acknowledgement of off is printed, and when the render pass
\* after it starts, clearAll has already put every strip to Off.
C3_OffForcedInHandler ==
    /\ pc = "offAck" => \A k \in Strips : strips[k] = OFF
    /\ (pc = "showChoice" /\ idx = 1 /\ cmd = W_off) =>
          /\ out = <<AckOff>>
          /\ \A k \in Strips : strips[k] = OFF

C3_Witness ==
    /\ pc = "showChoice"
    /\ idx = 1
    /\ cmd = W_off
    /\ out = <<AckOff>>
    /\ prev.strips = <<GREEN, RED, RED, RED>>
    /\ strips = <<OFF, OFF, OFF, OFF>>

\* C4: a line that, trimmed and lower-cased, is no word of the vocabulary
\* (the empty line is one) leaves the choice as it was, prints the unknown-
\* command line and nothing else, and the pass ends with the colours the
\* previous pass ended with.
C4_UnknownRejected ==
    (LineRead /\ cmd \notin Vocabulary) =>
        /\ currentChoice = prev.choice
        /\ out = <<Unknown>>
        /\ EndOfPass => strips = prev.strips

C4_Witness ==
    /\ EndOfPass
    /\ raw = <<>>
    /\ cmd = <<>>
    /\ currentChoice = REST
    /\ out = <<Unknown>>
    /\ strips = <<RED, GREEN, RED, RED>>

\* C5: status leaves the choice as it was and prints the name of the choice
\* of that moment: PMD, RESTAFVAL, KARTON or NONE.
C5_StatusReportsChoice ==
    (cmd = W_status) =>
        /\ currentChoice = prev.choice
        /\ out = << CASE currentChoice = PMD -> "Huidige keuze: PMD"
                      [] currentChoice = REST -> "Huidige keuze: RESTAFVAL"
                      [] currentChoice = KARTON -> "Huidige keuze: KARTON"
                      [] currentChoice = NONE -> "Huidige keuze: NONE" >>

C5_Witness ==
    /\ cmd = W_status
    /\ currentChoice = KARTON
    /\ out = <<"Huidige keuze: KARTON">>

\* The acknowledgement of a category word.
AckOf(w) ==
    CASE w = W_pmd -> AckPmd
      [] w \in {W_rest, W_restafval} -> AckRest
      [] w = W_karton -> AckKarton

\* C6: a category command sent again right after itself changes nothing: the
\* choice, and the colours at the end of the pass, are those the pass before
\* ended with, as they are in a pass that read no line; and it is
\* acknowledged again.
C6_RepeatIsIdempotent ==
    /\ repeated =>
          /\ currentChoice = prev.choice
          /\ out = <<AckOf(cmd)>>
          /\ EndOfPass => strips = prev.strips
    /\ (Started /\ ~LineRead /\ pc # "handleSerial") =>
          /\ currentChoice = prev.choice
          /\ EndOfPass => strips = prev.strips

C6_Witness ==
    /\ EndOfPass
    /\ repeated
    /\ cmd = W_pmd
    /\ out = <<AckPmd>>
    /\ currentChoice = PMD
    /\ strips = <<GREEN, RED, RED, RED>>

\* What a word does from choice c: the choice it leaves, the line it prints.
ChoiceAfter(c, w) ==
    CASE w = W_pmd -> PMD
      [] w \in {W_rest, W_restafval} -> REST
      [] w = W_karton -> KARTON
      [] w = W_off -> NONE
      [] w = W_status -> c

ReplyTo(c, w) ==
    CASE w \in CategoryWords -> AckOf(w)
      [] w = W_off -> AckOff
      [] w = W_status ->
            (CASE c = PMD -> "Huidige keuze: PMD"
               [] c = REST -> "Huidige keuze: RESTAFVAL"
               [] c = KARTON -> "Huidige keuze: KARTON"
               [] c = NONE -> "Huidige keuze: NONE")

\* C7: a line that differs from a word of the vocabulary in case and in
\* whitespace around it only is handled as the word itself is: from the same
\* choice it leaves the same choice, prints the same line and ends the pass
\* with the same colours.
C7_SpellingIgnored ==
    \A w \in Vocabulary :
        (LineRead /\ raw \in Variants(w)) =>
            /\ cmd = w
            /\ currentChoice = ChoiceAfter(prev.choice, w)
            /\ (pc \notin {"clearAll", "offAck"}) =>
                    out = <<ReplyTo(prev.choice, w)>>
            /\ EndOfPass => strips = Assignment(ChoiceAfter(prev.choice, w))

C7_Witness ==
    /\ EndOfPass
    /\ raw = <<"\t", "O", "f", "f", "\r">>
    /\ prev.choice = REST
    /\ currentChoice = NONE
    /\ out = <<AckOff>>
    /\ strips = <<OFF, OFF, OFF, OFF>>

\* C8: once setup has returned, and until a category command is handled, the
\* choice is None and all four strips show Off; a status before any other
\* line reports NONE.
C8_StartsDark ==
    (Started /\ ~everSelected) =>
        /\ currentChoice = NONE
        /\ \A k \in Strips : strips[k] = OFF
        /\ (cmd = W_status) => out = <<"Huidige keuze: NONE">>

C8_Witness ==
    /\ Started
    /\ lastSel = "none"
    /\ ~everSelected
    /\ cmd = W_status
    /\ out = <<"Huidige keuze: NONE">>
    /\ EndOfPass

\* C9: whatever the strips showed when a pass began, a disturbed strip
\* among them, and whether or not the pass read a line, the step that ends
\* its showChoice leaves the colours derived from the choice alone.
C9_RenderEveryPass ==
    [][(pc = "showChoice" /\ pc' = "delay") =>
            strips' = Assignment(currentChoice')]_vars

C9_Witness ==
    /\ EndOfPass
    /\ ~LineRead
    /\ currentChoice = REST
    /\ prev.strips = <<RED, GREEN, GREEN, RED>>
    /\ strips = <<RED, GREEN, RED, RED>>

\* C10: the choice changes only in the step of handleSerial that handles
\* pmd, rest, restafval, karton or off; no other step changes it.
C10_ChoiceFrame ==
    [][(currentChoice' # currentChoice) =>
            /\ pc = "handleSerial"
            /\ rx # <<>>
            /\ cmd' \in CategoryWords \cup {W_off}]_vars

C10_Witness ==
    /\ pc = "showChoice"
    /\ idx = 1
    /\ cmd = W_karton
    /\ currentChoice = KARTON
    /\ prev.choice = REST

\* clearAll of setup has written strip 4: from here on only the sketch
\* decides what the strip shows.
FourthWritten ==
    pc # "setup" /\ ~(pc = "clearAll" /\ ret = "banner")

\* C11: once the sketch has written strip 4, in every state, inside a render
\* pass as at its end and after every sequence of lines, strip 4 shows Off
\* or red and never green; no word of the vocabulary makes it green.
C11_FourthNeverGreen ==
    FourthWritten =>
        /\ strips[4] \in {OFF, RED}
        /\ (EndOfPass /\ cmd \in Vocabulary) =>
              strips[4] = (IF currentChoice = NONE THEN OFF ELSE RED)

C11_Witness ==
    /\ pc = "showChoice"
    /\ idx = 4
    /\ cmd = W_karton
    /\ prev.choice = NONE
    /\ strips = <<RED, RED, GREEN, OFF>>

\* A step of the sketch that takes bytes from the receive buffer (a step of
\* the host adds bytes and leaves pc alone).
TakesInput == rx' # rx /\ pc' # pc

\* C12: a step that takes input is the first of its pass to do so, and takes
\* from the front of the buffer one line and its '\n' (or the line begun, when
\* none is ended), leaving the rest in place; when it does, the render pass
\* after the line before it has ended, and the strips show the colours of
\* the choice that line left.
C12_OneLineInOrder ==
    [][TakesInput =>
          /\ pc = "handleSerial"
          /\ ~LineRead
          /\ Count(raw', NL) = 0
          /\ \/ rx = raw' \o <<NL>> \o rx'
             \/ rx = raw' /\ rx' = <<>>
          /\ prev = Shown
          /\ strips = Assignment(currentChoice)]_vars

C12_Witness ==
    /\ EndOfPass
    /\ cmd = W_pmd
    /\ prev.choice = REST
    /\ rx = Append(W_karton, NL)
    /\ strips = <<GREEN, RED, RED, RED>>

\* The sketch leaves its poll of the input.
Polls == pc = "handleSerial" /\ pc' # pc

\* C13, as claimed: a poll that finds no ended line in the buffer processes
\* no command (nothing is read, the choice and the output stay as they
\* were) and goes on to the render pass.
C13_NoLineNoCommand ==
    [][(Polls /\ Count(rx, NL) = 0) =>
          /\ ~LineRead'
          /\ currentChoice' = currentChoice
          /\ out' = out
          /\ pc' = "showChoice"]_vars

\* C13, amended: a poll that finds no byte in the buffer processes no
\* command (nothing is read, the choice, the output and the strips stay as
\* they were) and goes on to the render pass; a poll that finds bytes with
\* no '\n' among them reads them all and handles them as a line.
C13_NoByteNoCommand ==
    [][/\ (Polls /\ rx = <<>>) =>
             /\ ~LineRead'
             /\ UNCHANGED <<currentChoice, out, strips, rx>>
             /\ pc' = "showChoice"
       /\ (Polls /\ rx # <<>> /\ Count(rx, NL) = 0) =>
             /\ raw' = rx
             /\ rx' = <<>>
             /\ cmd' = ToLowerCase(Trim(rx))]_vars

C13_Witness ==
    /\ pc = "showChoice"
    /\ idx = 1
    /\ ~LineRead
    /\ rx = <<>>
    /\ out = <<>>
    /\ currentChoice = KARTON
    /\ prev.choice = KARTON

\* The kinds of output line, and the kind a line read calls for.
SelectAcks ==
    { "OK: PMD geselecteerd (strip op pin 7 wordt GROEN).",
      "OK: RESTAFVAL geselecteerd (strip op pin 4 wordt GROEN).",
      "OK: KARTON geselecteerd (strip op pin 5 wordt GROEN)." }

StatusReports ==
    { "Huidige keuze: PMD", "Huidige keuze: RESTAFVAL",
      "Huidige keuze: KARTON", "Huidige keuze: NONE" }

KindOf(line) ==
    CASE line \in SelectAcks -> "select"
      [] line = "OK: alles uit." -> "off"
      [] line \in StatusReports -> "status"
      [] line = "Onbekend commando. Gebruik: pmd | restafval | karton | status | off"
            -> "unknown"
      [] OTHER -> "none"

ClassOf(w) ==
    CASE w \in CategoryWords -> "select"
      [] w = W_off -> "off"
      [] w = W_status -> "status"
      [] OTHER -> "unknown"

\* The off branch has read its line and has not printed yet.
InOffBranch == (pc = "clearAll" /\ ret = "offAck") \/ pc = "offAck"

\* C14: a pass that read a line prints exactly one line, of the kind the
\* line read calls for, before the pass ends and so before the next line is
\* read; a pass that read none prints none.  The output of the passes, one
\* after the other, is therefore one line for each line read, in order.
C14_OneReplyPerLine ==
    Started =>
        /\ (pc = "handleSerial") => (~LineRead /\ out = <<>>)
        /\ InOffBranch => (cmd = W_off /\ out = <<>>)
        /\ (pc \in {"showChoice", "delay"}) =>
              IF LineRead
              THEN Len(out) = 1 /\ KindOf(out[1]) = ClassOf(cmd)
              ELSE out = <<>>

C14_Witness ==
    /\ EndOfPass
    /\ cmd = W_status
    /\ KindOf(out[1]) = "status"
    /\ Len(out) = 1
    /\ rx = Append(<<"p", "m", "d", "d">>, NL)

\* The pin an acknowledgement names in its text, 0 when it names none.
PinNamed(line) ==
    CASE line = "OK: PMD geselecteerd (strip op pin 7 wordt GROEN)." -> 7
      [] line = "OK: RESTAFVAL geselecteerd (strip op pin 4 wordt GROEN)." -> 4
      [] line = "OK: KARTON geselecteerd (strip op pin 5 wordt GROEN)." -> 5
      [] OTHER -> 0

\* The pins of the strips that show green.
GreenPins == { PinOf(k) : k \in {j \in Strips : strips[j] = GREEN} }

\* C15: at the end of a pass that handled a category command, the pin its
\* acknowledgement names (7 for pmd, 4 for rest and restafval, 5 for karton)
\* is the pin of the strip that shows green, and no strip on another pin
\* shows green.
C15_AckNamesGreenPin ==
    (EndOfPass /\ cmd \in CategoryWords) =>
        /\ Len(out) = 1
        /\ PinNamed(out[1]) =
              (CASE cmd = W_pmd -> 7
                 [] cmd \in {W_rest, W_restafval} -> 4
                 [] cmd = W_karton -> 5)
        /\ GreenPins = {PinNamed(out[1])}

C15_Witness ==
    /\ EndOfPass
    /\ cmd = W_restafval
    /\ out = <<"OK: RESTAFVAL geselecteerd (strip op pin 4 wordt GROEN).">>
    /\ GreenPins = {4}
    /\ prev.choice = KARTON

\* The lines the buffer can hold: those the host sends, and those it ends
\* after beginning them with a fragment.
SentLines == HostLines \cup { f \o l : f \in HostFragments, l \in HostLines }

\* Line l, ended by its '\n', is one of the lines of buf.
Holds(buf, l) ==
    \E i \in 1..Len(buf) :
        /\ i = 1 \/ buf[i - 1] = NL
        /\ i + Len(l) <= Len(buf)
        /\ SubSeq(buf, i, i + Len(l) - 1) = l
        /\ buf[i + Len(l)] = NL

\* Line l is a category word or off, in some spelling.
Selects(l) == ToLowerCase(Trim(l)) \in CategoryWords \cup {W_off}

\* C16: whatever the host sends, unknown lines without end among it, the
\* loop goes round for ever; every line that has arrived is read in the end;
\* and a line that is a category word or off ends a pass with the colours
\* of its choice on the strips.
C16_LoopGoesOn ==
    /\ []<>(pc = "handleSerial")
    /\ \A l \in SentLines :
          Holds(rx, l) ~>
              /\ EndOfPass
              /\ raw = l
              /\ Selects(l) =>
                    strips = Assignment(ChoiceAfter(NONE, ToLowerCase(Trim(l))))

C16_Witness ==
    /\ EndOfPass
    /\ raw = <<" ", "P", "M", "D", " ">>
    /\ prev.choice = KARTON
    /\ strips = <<GREEN, RED, RED, RED>>
    /\ rx = Append(<<"p", "m", "d", "d">>, NL)

\* C17: from every choice, rest and restafval do the same: the choice is
\* REST, the line printed is the RESTAFVAL acknowledgement, the pass ends
\* with green on strip 2 and red on the others, and the status line that
\* follows either of them reports RESTAFVAL.
C17_AliasesAgree ==
    /\ \A w \in {W_rest, W_restafval} :
          (cmd = w) =>
              /\ currentChoice = REST
              /\ out = <<"OK: RESTAFVAL geselecteerd (strip op pin 4 wordt GROEN).">>
              /\ EndOfPass => strips = <<RED, GREEN, RED, RED>>
    /\ (cmd = W_status) =>
          /\ currentChoice = REST
          /\ out = <<"Huidige keuze: RESTAFVAL">>
          /\ EndOfPass => strips = <<RED, GREEN, RED, RED>>
    /\ (pc = "handleSerial" /\ lastCat \in {W_rest, W_restafval}) =>
          /\ rx = Append(W_status, NL)
          /\ Shown = [choice |-> REST, strips |-> <<RED, GREEN, RED, RED>>]

C17_Witness ==
    /\ EndOfPass
    /\ cmd = W_status
    /\ prev.choice = REST
    /\ rx = <<>>
    /\ out = <<"Huidige keuze: RESTAFVAL">>
    /\ strips = <<RED, GREEN, RED, RED>>

\* The strips that show green, and the strip a choice turns green.
GreenStrips == {k \in Strips : strips[k] = GREEN}

GreenOf(c) == IF c = NONE THEN {} ELSE {StripOfChoice(c)}

\* showChoice has written some of the strips and not yet all.
MidRender == pc = "showChoice" /\ idx > 1

\* C18, as claimed: once setup has returned, in every state, between the
\* writes of a render pass too, at most one strip shows green.
C18_AtMostOneGreen ==
    Started => Cardinality(GreenStrips) <= 1

\* C18, amended: once setup has returned, at most one strip shows green at
\* the end of a render pass and from there until the next pass has written
\* its first strip, so also between the handling of a command and the
\* render after it; between the writes of a render pass the strip of the
\* choice before can still show green beside the strip of the new choice,
\* and no other strip does.
C18_OneGreenBetweenPasses ==
    Started =>
        /\ ~MidRender => Cardinality(GreenStrips) <= 1
        /\ MidRender =>
              GreenStrips \subseteq GreenOf(currentChoice) \cup GreenOf(prev.choice)

C18_Witness ==
    /\ pc = "showChoice"
    /\ idx = 2
    /\ cmd = W_pmd
    /\ prev.choice = KARTON
    /\ strips = <<GREEN, RED, GREEN, RED>>

====
